---- MODULE Spec2Model ----
(***************************************************************************)
(* Model of climate_dashboard.py: a Streamlit script that is re-run from   *)
(* top to bottom on every widget interaction.  One run = one recomputation *)
(* pass: filter -> rank -> trend chart data -> scatter chart data ->       *)
(* regression.  The state is the cached table, the widget values and the   *)
(* data frames / results the latest run produced.                          *)
(*                                                                         *)
(* Numbers: a cell of the table is <<>> (NaN, absent) or <<v>> (v an       *)
(* integer).  A mean is <<>> (NaN) or the exact fraction <<sum, count>>;   *)
(* fractions are compared by cross-multiplication (RatEq, RatGe).          *)
(***************************************************************************)
EXTENDS Integers, Sequences, FiniteSets, TLC

\* ------------------------------------------------------------------ bounds
\* Years of the data set are 1..MaxYear (1960..2013 in the CSV).
MaxYear == 3
\* Upper end of the "Max countries to plot" slider (20 in the source).
MaxSlider == 4
\* Lower end of the same slider.
MinSlider == 3

Years == 1..MaxYear
Countries == {1, 2, 3, 4}
\* default=["India", "United States", "China"]
DefaultCountries == {1, 2, 3}

NaN == <<>>
isna(x) == x = <<>>
notna(x) == x # <<>>

\* --------------------------------------------------------------- fractions
RatEq(a, b) == a[1] * b[2] = b[1] * a[2]
RatGe(a, b) == a[1] * b[2] >= b[1] * a[2]

Min2(a, b) == IF a <= b THEN a ELSE b

\* ------------------------------------------------------------ input tables
\* Income group of a country (a column of the CSV, constant per country).
IncomeGroupOf(c) == IF c % 2 = 1 THEN "Low income" ELSE "High income"

\* The shapes a country's series can take: one cell per year, each cell
\* <<>> (no row for that year) or <<MeanTemp, CO2_kt>>.
SeriesShapes ==
  << << << <<0>>, <<0>> >>, << <<1>>, <<2>> >>, << <<3>>, <<1>> >> >>,
     << << <<2>>, <<1>> >>, << NaN,   <<2>> >>, << <<0>>, NaN   >> >>,
     << << <<2>>, <<2>> >>, <<>>,               << <<1>>, <<0>> >> >> >>

CellOf(shape, y) == SeriesShapes[shape][((y - 1) % 3) + 1]

TableOf(f) ==
  { [Country |-> c, Year |-> y, IncomeGroup |-> IncomeGroupOf(c),
     MeanTemp |-> CellOf(f[c], y)[1], CO2_kt |-> CellOf(f[c], y)[2]] :
      <<c, y>> \in { cy \in Countries \X Years : CellOf(f[cy[1]], cy[2]) # <<>> } }

Tables == { TableOf(f) : f \in [Countries -> 1..Len(SeriesShapes)] }
\* The tables in which countries 1 and 3 have the first and the last shape.
PageTables ==
  { TableOf(f) : f \in { g \in [Countries -> 1..Len(SeriesShapes)] : g[1] = 1 /\ g[3] = 3 } }

\* ------------------------------------------------------- pandas primitives
\* Ascending sequence of a set of integers (groupby sorts its keys).
RECURSIVE SortedKeys(_)
SortedKeys(S) ==
  IF S = {} THEN <<>>
  ELSE LET m == CHOOSE m \in S : \A k \in S : m <= k
       IN <<m>> \o SortedKeys(S \ {m})

\* DataFrame.sort_values(["Country","Year"]) of a set of rows.
RowKey(r) == r.Country * (MaxYear + 1) + r.Year
RowsInOrder(rows, ks) == [i \in 1..Len(ks) |-> CHOOSE r \in rows : RowKey(r) = ks[i]]
sort_values(rows) == RowsInOrder(rows, SortedKeys({ RowKey(r) : r \in rows }))

\* Sum and count of the non-NaN entries of a sequence of cells.
RECURSIVE SumPresent(_)
SumPresent(s) ==
  IF s = <<>> THEN 0
  ELSE (IF isna(Head(s)) THEN 0 ELSE Head(s)[1]) + SumPresent(Tail(s))

RECURSIVE CountPresent(_)
CountPresent(s) ==
  IF s = <<>> THEN 0
  ELSE (IF isna(Head(s)) THEN 0 ELSE 1) + CountPresent(Tail(s))

\* Series.mean(): skips NaN; NaN when nothing is left.
\* Faulty variant of mean: divides by the length, NaN entries included.
MeanLosesNaNCount(s) == IF CountPresent(s) = 0 THEN NaN ELSE <<SumPresent(s), Len(s)>>
mean(s) == IF CountPresent(s) = 0 THEN NaN ELSE <<SumPresent(s), CountPresent(s)>>

\* The column `col` of a set of rows, in (Country, Year) order.
MeanTempOf(rows) == LET s == sort_values(rows) IN [i \in 1..Len(s) |-> s[i].MeanTemp]
CO2PlotOf(rows) == LET s == sort_values(rows) IN [i \in 1..Len(s) |-> s[i].CO2_plot]

\* numpy.log1p, as round(100 * ln(1 + x)).
LogTable == <<0, 69, 110, 139, 161, 179, 195, 208, 220, 230>>
log1p(x) == LogTable[x + 1]

\* --------------------------------------------------------------- filtering
\* df_filtered: rows inside the window whose country is selected.
DfFiltered(df, ymin, ymax, sel) ==
  { r \in df : r.Year >= ymin /\ r.Year <= ymax /\ r.Country \in sel }

\* .dropna(subset=["MeanTemp","CO2_kt"])
dropna(rows) == { r \in rows : notna(r.MeanTemp) /\ notna(r.CO2_kt) }

\* ----------------------------------------------------- rank by warming rate
\* final_df.query(window).sort_values([Country, Year])
\*         .assign(temp_change = groupby(Country)[MeanTemp].diff())
\* groupby(Country)[MeanTemp].diff() on the sorted rows s
GroupDiff(s) ==
  [i \in 1..Len(s) |->
     [Country |-> s[i].Country,
      temp_change |->
        IF /\ i > 1
           /\ s[i - 1].Country = s[i].Country
           /\ notna(s[i].MeanTemp)
           /\ notna(s[i - 1].MeanTemp)
        THEN << s[i].MeanTemp[1] - s[i - 1].MeanTemp[1] >>
        ELSE NaN]]

RankSrc(df, ymin, ymax) ==
  GroupDiff(sort_values({ r \in df : r.Year >= ymin /\ r.Year <= ymax }))

\* The groups of rank_src.groupby("Country")["temp_change"]: the temp_change
\* entries of one country, their mean, and the group keys in sorted order.
ChangesOf(g) == [i \in 1..Len(g) |-> g[i].temp_change]
GroupOf(src, c) == SelectSeq(src, LAMBDA e : e.Country = c)
MeanChange(src, c) == mean(ChangesOf(GroupOf(src, c)))
MeanChangeOrZero(src, c) ==
  IF CountPresent(ChangesOf(GroupOf(src, c))) = 0 THEN <<0, 1>> ELSE MeanChange(src, c)
GroupKeysOf(src) == SortedKeys({ src[i].Country : i \in 1..Len(src) })

\* Faulty variant of GroupMean: a group without any difference scores 0.
GroupMeanKeepsZeroOf(src, keys) ==
  [k \in 1..Len(keys) |->
     [Country |-> keys[k], temp_change |-> MeanChangeOrZero(src, keys[k])]]
GroupMeanKeepsZero(src) == GroupMeanKeepsZeroOf(src, GroupKeysOf(src))

\* rank_src.groupby("Country")["temp_change"].mean()
GroupMeanOf(src, keys) ==
  [k \in 1..Len(keys) |->
     [Country |-> keys[k], temp_change |-> MeanChange(src, keys[k])]]
GroupMean(src) == GroupMeanOf(src, GroupKeysOf(src))

\* Series.dropna()
DropNaN(s) == SelectSeq(s, LAMBDA e : notna(e.temp_change))

\* Series.sort_values(ascending=False).  Equal scores keep the order the
\* group-by produced (the order numpy gives for short inputs); the order of
\* equal scores is in any case a fixed function of the input.
InsertAt(s, x, pos) == SubSeq(s, 1, pos) \o <<x>> \o SubSeq(s, pos + 1, Len(s))
InsertDesc(s, x) ==
  InsertAt(s, x, Cardinality({ i \in 1..Len(s) : RatGe(s[i].temp_change, x.temp_change) }))

RECURSIVE SortDescending(_)
SortDescending(s) ==
  IF s = <<>> THEN <<>>
  ELSE InsertDesc(SortDescending(SubSeq(s, 1, Len(s) - 1)), s[Len(s)])

Rank(df, ymin, ymax) == SortDescending(DropNaN(GroupMean(RankSrc(df, ymin, ymax))))

\* ---------------------------------------------------------- mode decisions
\* Faulty variant of too_many: off by one at the threshold.
TooManyAtThreshold(sel, maxc) == Cardinality(sel) >= maxc
too_many(sel, maxc) == Cardinality(sel) > maxc

\* use_income_lines = auto_aggregate and too_many          (trend chart)
UseIncomeLines(auto, sel, maxc) == auto /\ too_many(sel, maxc)

\* if auto_aggregate and len(selected_countries) > max_countries   (scatter)
ScatterUsesIncome(auto, sel, maxc) == auto /\ Cardinality(sel) > maxc

\* ------------------------------------------------------ per-entity selection
\* rank.index
Index(rk) == [i \in 1..Len(rk) |-> rk[i].Country]
\* s[:n]
Take(s, n) == SubSeq(s, 1, Min2(n, Len(s)))

\* Faulty variant of TopN: the rank is not filtered to the selection.
TopNUnfiltered(rk, sel, maxc) == Take(Index(rk), maxc)
\* [c for c in rank.index if c in selected_countries][:max_countries]
TopN(rk, sel, maxc) == Take(SelectSeq(Index(rk), LAMBDA c : c \in sel), maxc)

Elems(s) == { s[i] : i \in 1..Len(s) }

\* df[df["Country"].isin(topN)]
IsIn(rows, top) == { r \in rows : r.Country \in Elems(top) }

\* ------------------------------------------------------ category aggregation
GroupKeys(rows) == { <<r.Year, r.IncomeGroup>> : r \in rows }
GroupRows(rows, g) == { r \in rows : r.Year = g[1] /\ r.IncomeGroup = g[2] }

\* df_filtered.groupby(["Year","Income group"])["MeanTemp"].mean().reset_index()
GroupedCt(dff) ==
  { [Year |-> g[1], IncomeGroup |-> g[2],
     MeanTemp |-> mean(MeanTempOf(GroupRows(dff, g)))] : g \in GroupKeys(dff) }

\* plot_df = df_filtered.dropna(...).copy(); plot_df["CO2_plot"] = ...
\* Faulty variant of PlotDf: the log transform also hits MeanTemp.
PlotDfLogsTemp(dff, log) ==
  { [Country |-> r.Country, Year |-> r.Year, IncomeGroup |-> r.IncomeGroup,
     MeanTemp |-> IF log THEN << log1p(r.MeanTemp[1]) >> ELSE r.MeanTemp,
     CO2_kt |-> r.CO2_kt,
     CO2_plot |-> IF log THEN << log1p(r.CO2_kt[1]) >> ELSE r.CO2_kt] :
      r \in dropna(dff) }
PlotDf(dff, log) ==
  { [Country |-> r.Country, Year |-> r.Year, IncomeGroup |-> r.IncomeGroup,
     MeanTemp |-> r.MeanTemp, CO2_kt |-> r.CO2_kt,
     CO2_plot |-> IF log THEN << log1p(r.CO2_kt[1]) >> ELSE r.CO2_kt] :
      r \in dropna(dff) }

\* plot_df.groupby(["Year","Income group"]).agg(MeanTemp mean, CO2_plot mean)
AggSc(pdf) ==
  { [Year |-> g[1], IncomeGroup |-> g[2],
     MeanTemp |-> mean(MeanTempOf(GroupRows(pdf, g))),
     CO2_plot |-> mean(CO2PlotOf(GroupRows(pdf, g)))] : g \in GroupKeys(pdf) }

\* ---------------------------------------------------------------- regression
\* reg_df = df_filtered.dropna(subset=["MeanTemp","CO2_kt"])
\* Faulty variant of RegDf: only the plotted entities are regressed.
RegDfFromTopN(dff, top) == dropna(IsIn(dff, top))
RegDf(dff, top) == dropna(dff)

RECURSIVE SumX(_)
SumX(s) == IF s = <<>> THEN 0 ELSE Head(s).CO2_kt[1] + SumX(Tail(s))
RECURSIVE SumY(_)
SumY(s) == IF s = <<>> THEN 0 ELSE Head(s).MeanTemp[1] + SumY(Tail(s))
RECURSIVE SumXY(_)
SumXY(s) ==
  IF s = <<>> THEN 0 ELSE Head(s).CO2_kt[1] * Head(s).MeanTemp[1] + SumXY(Tail(s))
RECURSIVE SumXX(_)
SumXX(s) ==
  IF s = <<>> THEN 0 ELSE Head(s).CO2_kt[1] * Head(s).CO2_kt[1] + SumXX(Tail(s))

\* LinearRegression().fit(X, y): least squares from the sums over the n
\* samples; when all x coincide (one point included) the minimum-norm
\* solution is returned: slope 0, intercept mean(y).  No error is raised
\* for a single sample.
LeastSquares(n, sx, sy, sxy, sxx) ==
  IF n * sxx - sx * sx = 0
  THEN [status |-> "fit", coef |-> <<0, 1>>, intercept |-> <<sy, n>>]
  ELSE [status |-> "fit",
        coef |-> <<n * sxy - sx * sy, n * sxx - sx * sx>>,
        intercept |-> <<sy * (n * sxx - sx * sx) - (n * sxy - sx * sy) * sx,
                        n * (n * sxx - sx * sx)>>]

FitSeq(s) == LeastSquares(Len(s), SumX(s), SumY(s), SumXY(s), SumXX(s))
Fit(reg) == FitSeq(sort_values(reg))

\* if not reg_df.empty: fit ... else: st.warning(...)
Regression(reg) ==
  IF reg # {}
  THEN Fit(reg)
  ELSE [status |-> "warning", coef |-> NaN, intercept |-> NaN]

\* ---------------------------------------------------------------------- state
VARIABLES
  final_df,            \* the cached table
  year_min, year_max,  \* select_slider
  selected_countries,  \* multiselect
  max_countries,       \* slider
  auto_aggregate,      \* checkbox
  show_line_labels,    \* checkbox (rendering only)
  use_log,             \* checkbox
  df_filtered,
  rank,
  use_income_lines,    \* mode of the trend chart
  grouped_ct,          \* trend chart data, per-category mode
  topN,                \* selection, per-entity mode
  plot_ct,             \* trend chart data, per-entity mode
  plot_df,
  scatter_income,      \* mode of the scatter chart
  agg_sc,              \* scatter chart data, per-category mode
  p,                   \* scatter chart data, per-entity mode
  reg_df,
  model                \* regression outcome

filters == <<year_min, year_max, selected_countries, max_countries,
             auto_aggregate, show_line_labels, use_log>>
results == <<df_filtered, rank, use_income_lines, grouped_ct, topN, plot_ct,
             plot_df, scatter_income, agg_sc, p, reg_df, model>>
vars == <<final_df, filters, results>>

\* load_data() under @st.cache_data: every run gets the cached table back.
\* Faulty variant of load_data: the cached table loses a row per run.
LoadDataDropsRow(df) == IF df = {} THEN df ELSE df \ {CHOOSE r \in df : TRUE}
load_data(df) == df

YearsOf(df) == { r.Year : r \in df }
AllCountries(df) == { r.Country : r \in df }
MinOf(S) == CHOOSE m \in S : \A k \in S : m <= k
MaxOf(S) == CHOOSE m \in S : \A k \in S : m >= k

\* One run of the script with the given widget values (each frame is bound
\* once, in the order the script computes it).
Run(ymin, ymax, sel, maxc, auto, labels, log) ==
  \E df  \in {load_data(final_df)} :
  \E dff \in {DfFiltered(df, ymin, ymax, sel)} :
  \E rk  \in {Rank(df, ymin, ymax)} :
  \E uil \in {UseIncomeLines(auto, sel, maxc)} :
  \E sci \in {ScatterUsesIncome(auto, sel, maxc)} :
  \E top \in {TopN(rk, sel, maxc)} :
  \E pdf \in {PlotDf(dff, log)} :
  \E reg \in {RegDf(dff, top)} :
     /\ final_df' = df
     /\ year_min' = ymin
     /\ year_max' = ymax
     /\ selected_countries' = sel
     /\ max_countries' = maxc
     /\ auto_aggregate' = auto
     /\ show_line_labels' = labels
     /\ use_log' = log
     /\ df_filtered' = dff
     /\ rank' = rk
     /\ use_income_lines' = uil
     /\ grouped_ct' = IF uil THEN GroupedCt(dff) ELSE {}
     /\ topN' = IF uil /\ sci THEN <<>> ELSE top
     /\ plot_ct' = IF uil THEN {} ELSE IsIn(dff, top)
     /\ plot_df' = pdf
     /\ scatter_income' = sci
     /\ agg_sc' = IF sci THEN AggSc(pdf) ELSE {}
     /\ p' = IF sci THEN {} ELSE IsIn(pdf, top)
     /\ reg_df' = reg
     /\ model' = Regression(reg)

\* First run on a table of `tables`: the widgets hold their defaults.
FirstRun(tables) ==
  /\ final_df \in tables
  /\ year_min = MinOf(YearsOf(final_df))
  /\ year_max = MaxOf(YearsOf(final_df))
  /\ selected_countries = DefaultCountries
  /\ max_countries = MaxSlider
  /\ auto_aggregate = TRUE
  /\ show_line_labels = TRUE
  /\ use_log = TRUE
  /\ df_filtered = DfFiltered(final_df, year_min, year_max, selected_countries)
  /\ rank = Rank(final_df, year_min, year_max)
  /\ use_income_lines = UseIncomeLines(auto_aggregate, selected_countries, max_countries)
  /\ scatter_income = ScatterUsesIncome(auto_aggregate, selected_countries, max_countries)
  /\ grouped_ct = IF use_income_lines THEN GroupedCt(df_filtered) ELSE {}
  /\ topN = IF use_income_lines /\ scatter_income THEN <<>>
            ELSE TopN(rank, selected_countries, max_countries)
  /\ plot_ct = IF use_income_lines THEN {} ELSE IsIn(df_filtered, topN)
  /\ plot_df = PlotDf(df_filtered, use_log)
  /\ agg_sc = IF scatter_income THEN AggSc(plot_df) ELSE {}
  /\ p = IF scatter_income THEN {} ELSE IsIn(plot_df, topN)
  /\ reg_df = RegDf(df_filtered, topN)
  /\ model = Regression(reg_df)

\* The user drags one handle of the year range slider to another year.
SetYearRange ==
  \E lo \in YearsOf(final_df), hi \in YearsOf(final_df) :
    /\ lo <= hi
    /\ (lo = year_min) # (hi = year_max)
    /\ Run(lo, hi, selected_countries, max_countries, auto_aggregate,
           show_line_labels, use_log)

\* The user adds a country to, or removes one from, the multiselect.
SetCountries ==
  \E c \in AllCountries(final_df) :
    Run(year_min, year_max,
        IF c \in selected_countries THEN selected_countries \ {c}
                                    ELSE selected_countries \cup {c},
        max_countries, auto_aggregate, show_line_labels, use_log)

\* The user moves the "Max countries to plot" slider.
SetMaxCountries ==
  \E n \in MinSlider..MaxSlider :
    /\ n # max_countries
    /\ Run(year_min, year_max, selected_countries, n, auto_aggregate,
           show_line_labels, use_log)

ToggleAutoAggregate ==
  Run(year_min, year_max, selected_countries, max_countries, ~auto_aggregate,
      show_line_labels, use_log)

ToggleShowLineLabels ==
  Run(year_min, year_max, selected_countries, max_countries, auto_aggregate,
      ~show_line_labels, use_log)

ToggleUseLog ==
  Run(year_min, year_max, selected_countries, max_countries, auto_aggregate,
      show_line_labels, ~use_log)

\* Any widget of the page.
Next ==
  \/ SetYearRange
  \/ SetCountries
  \/ SetMaxCountries
  \/ ToggleAutoAggregate
  \/ ToggleShowLineLabels
  \/ ToggleUseLog

\* The widgets that choose the data of a pass; the three checkboxes stay at
\* their defaults (auto_aggregate on).
NextData ==
  \/ SetYearRange
  \/ SetCountries
  \/ SetMaxCountries

Init == FirstRun(PageTables)
InitData == FirstRun(Tables)

\* Every widget, over the tables of PageTables.
Spec == Init /\ [][Next]_vars
\* The data widgets, over every table of Tables.
SpecData == InitData /\ [][NextData]_vars

\* =================================================================== claims
\* Helpers of the properties below (declarative; they do not follow the
\* script's order of computation).
Ranked == { rank[i].Country : i \in 1..Len(rank) }
ScoreOf(c) == rank[CHOOSE i \in 1..Len(rank) : rank[i].Country = c].temp_change
WindowRows(c) ==
  { r \in final_df : r.Country = c /\ r.Year >= year_min /\ r.Year <= year_max }
\* Pairs of records of R that follow each other in year order.
ConsecutivePairs(R) ==
  { ab \in R \X R :
      /\ ab[1].Year < ab[2].Year
      /\ ~ \E m \in R : ab[1].Year < m.Year /\ m.Year < ab[2].Year }
BothTemps(P) == { ab \in P : notna(ab[1].MeanTemp) /\ notna(ab[2].MeanTemp) }
RECURSIVE SumDiffs(_)
SumDiffs(P) ==
  IF P = {} THEN 0
  ELSE LET ab == CHOOSE ab \in P : TRUE
       IN (ab[2].MeanTemp[1] - ab[1].MeanTemp[1]) + SumDiffs(P \ {ab})
WithTemp(R) == { r \in R : notna(r.MeanTemp) }
Complete(R) == { r \in R : notna(r.MeanTemp) /\ notna(r.CO2_kt) }
RECURSIVE TempSum(_)
TempSum(R) ==
  IF R = {} THEN 0
  ELSE LET r == CHOOSE r \in R : TRUE IN r.MeanTemp[1] + TempSum(R \ {r})
RECURSIVE Co2Sum(_, _)
Co2Sum(R, log) ==
  IF R = {} THEN 0
  ELSE LET r == CHOOSE r \in R : TRUE
       IN (IF log THEN log1p(r.CO2_kt[1]) ELSE r.CO2_kt[1]) + Co2Sum(R \ {r}, log)
\* Records of the filtered table (window and requested entities) in a group.
Filtered ==
  { r \in final_df : /\ r.Year >= year_min /\ r.Year <= year_max
                     /\ r.Country \in selected_countries }
InGroup(R, y, g) == { r \in R : r.Year = y /\ r.IncomeGroup = g }
KeysOf(R) == { <<r.Year, r.IncomeGroup>> : r \in R }
\* A mean (NaN or fraction) equals sum/count of a set of values.
IsMean(m, sum, count) ==
  IF count = 0 THEN isna(m) ELSE notna(m) /\ RatEq(m, <<sum, count>>)

\* ------------------------------------------------------------------------ C1
\* C1: the pass uses per-category mode exactly when auto_aggregate is true
\* and more entities are requested than max_count; with at most max_count
\* requested entities it uses per-entity mode whatever auto_aggregate is;
\* the trend chart and the scatter chart of a pass take the same mode.
C1_ModeDecision ==
  /\ use_income_lines <=>
       (auto_aggregate /\ Cardinality(selected_countries) > max_countries)
  /\ Cardinality(selected_countries) <= max_countries => ~use_income_lines
  /\ scatter_income <=> use_income_lines

\* Per-category mode was taken just above the threshold, and the threshold
\* itself (as many requested as max_count) is a state of the program too.
C1_Witness ==
  /\ use_income_lines /\ scatter_income
  /\ Cardinality(selected_countries) = max_countries + 1

\* ------------------------------------------------------------------------ C2
\* C2: in per-entity mode topN holds only requested entities, at most
\* max_count of them, without repetition, in descending rank-score order,
\* and it is a prefix of the rank restricted to the requested entities: a
\* requested ranked entity is left out only when max_count better-or-equal
\* ones were taken.
C2_TopNSelection ==
  ~use_income_lines =>
    /\ Elems(topN) \subseteq selected_countries
    /\ Elems(topN) \subseteq Ranked
    /\ Len(topN) <= max_countries
    /\ Cardinality(Elems(topN)) = Len(topN)
    /\ \A i \in 1..Len(topN) : \A j \in 1..Len(topN) :
         i < j => RatGe(ScoreOf(topN[i]), ScoreOf(topN[j]))
    /\ \A c \in (selected_countries \cap Ranked) \ Elems(topN) :
         /\ Len(topN) = max_countries
         /\ \A i \in 1..Len(topN) : RatGe(ScoreOf(topN[i]), ScoreOf(c))

\* Per-entity mode in which the cut to max_count removed a requested, ranked
\* entity.
C2_Witness ==
  /\ ~use_income_lines
  /\ Len(topN) = max_countries
  /\ (selected_countries \cap Ranked) \ Elems(topN) # {}

\* ------------------------------------------------------------------------ C3
\* C3 as stated: an entity with at least 2 records in the window has a rank
\* score, equal to the mean of the consecutive differences of its metric
\* values in year order; an entity with fewer than 2 records is not ranked.
\* Stated for the entities on which removing the records without MeanTemp
\* first would not change the outcome (no MeanTemp is absent, or fewer than 2
\* are present), so that the way absent values are excluded (C8) plays no
\* part.
C3_Original ==
  \A c \in Countries :
    LET R == WindowRows(c)
        P == ConsecutivePairs(R)
    IN /\ (Cardinality(R) >= 2 /\ (WithTemp(R) = R \/ Cardinality(WithTemp(R)) < 2)) =>
            /\ c \in Ranked
            /\ WithTemp(R) = R => RatEq(ScoreOf(c), <<SumDiffs(P), Cardinality(P)>>)
       /\ Cardinality(R) < 2 => c \notin Ranked

\* C3 as amended: an entity with at least 2 records in the window, all of
\* them carrying a MeanTemp, is ranked once, with the mean of the consecutive
\* differences of its metric values in year order as its score; an entity
\* with fewer than 2 records in the window is not ranked (not given score 0).
C3_RankScore ==
  \A c \in Countries :
    LET R == WindowRows(c)
        P == ConsecutivePairs(R)
    IN /\ (Cardinality(R) >= 2 /\ WithTemp(R) = R) =>
            /\ Cardinality({ i \in 1..Len(rank) : rank[i].Country = c }) = 1
            /\ RatEq(ScoreOf(c), <<SumDiffs(P), Cardinality(P)>>)
       /\ Cardinality(R) < 2 => c \notin Ranked

\* In one window: an entity ranked from two records, and an entity with a
\* single record that is not ranked.
C3_Witness ==
  /\ \E c \in Ranked : Cardinality(WindowRows(c)) = 2 /\ ScoreOf(c)[1] # 0
  /\ \E c \in Countries : Cardinality(WindowRows(c)) = 1 /\ c \notin Ranked

\* ------------------------------------------------------------------------ C4
\* C4: the regression step signals insufficient data, and gives no slope and
\* intercept, whenever fewer than 2 valid paired observations are left (none,
\* or a single point).
C4_InsufficientData ==
  Cardinality(reg_df) < 2
    => model.status = "warning" /\ isna(model.coef) /\ isna(model.intercept)

\* ------------------------------------------------------------------------ C5
\* C5: in per-entity mode, when fewer entities are requested than max_count,
\* every requested entity is selected, also one with fewer than 2 records in
\* the window.  Stated for the requested entities none of whose records in
\* the window lacks its MeanTemp, so that absent values play no part.
C5_AllRequestedIncluded ==
  (~use_income_lines /\ Cardinality(selected_countries) < max_countries)
    => \A c \in selected_countries :
         WithTemp(WindowRows(c)) = WindowRows(c) => c \in Elems(topN)

OnlyUseLogChanges ==
  /\ use_log' # use_log
  /\ final_df' = final_df
  /\ <<year_min, year_max, selected_countries, max_countries, auto_aggregate>>'
       = <<year_min, year_max, selected_countries, max_countries, auto_aggregate>>

\* What of a pass does not involve the displayed CO2 value.
LogFreeResults ==
  <<df_filtered, rank, use_income_lines, scatter_income, topN, grouped_ct,
    plot_ct, reg_df, model,
    { <<a.Year, a.IncomeGroup, a.MeanTemp>> : a \in agg_sc }>>

\* The row of the aggregation rawAgg with the (year, category) of row a.
RawRowFor(a, rawAgg) ==
  CHOOSE b \in rawAgg : b.Year = a.Year /\ b.IncomeGroup = a.IncomeGroup

\* The aggregated CO2 value of every row of logAgg is log1p of the aggregated
\* CO2 value of the same row of rawAgg (compared where the raw mean is a
\* whole number, on which log1p is tabulated).
TransformOfAggregate(logAgg, rawAgg) ==
  \A a \in logAgg :
    (RawRowFor(a, rawAgg).CO2_plot[1] % RawRowFor(a, rawAgg).CO2_plot[2] = 0)
      => RatEq(a.CO2_plot,
               << log1p(RawRowFor(a, rawAgg).CO2_plot[1]
                          \div RawRowFor(a, rawAgg).CO2_plot[2]), 1 >>)

\* C7 as stated: two passes that differ only in use_log have the same rank,
\* mode, selection, aggregated means and regression, the aggregated CO2 value
\* of the log pass being the display transform (log1p) of the aggregated CO2
\* value of the raw pass.
C7_Original ==
  [][OnlyUseLogChanges =>
       /\ LogFreeResults' = LogFreeResults
       /\ IF use_log' THEN TransformOfAggregate(agg_sc', agg_sc)
                      ELSE TransformOfAggregate(agg_sc, agg_sc')
     ]_vars

\* C7 as amended: two passes that differ only in use_log have the same rank,
\* mode, selection, trend aggregation, aggregated MeanTemp of the scatter
\* chart, regression input and regression result; the aggregated CO2 value of
\* the log pass is the mean of the log1p values of the group's records (the
\* transform is applied to each record before the aggregation, not to the
\* aggregated value).
C7_UseLogDisplayOnly ==
  [][OnlyUseLogChanges =>
       /\ LogFreeResults' = LogFreeResults
       /\ \A a \in agg_sc' :
            LET B == Complete(InGroup(df_filtered', a.Year, a.IncomeGroup))
            IN IsMean(a.CO2_plot, Co2Sum(B, use_log'), Cardinality(B))
     ]_vars

\* use_log was switched off in per-category mode, with a group of two
\* complete records whose CO2 values differ.
C7_Witness ==
  /\ ~use_log /\ scatter_income
  /\ \E a \in agg_sc :
       LET B == Complete(InGroup(df_filtered, a.Year, a.IncomeGroup))
       IN Cardinality({ r.CO2_kt : r \in B }) >= 2

C8_RowWiseExclusion ==
  \A c \in Countries :
    LET R == WithTemp(WindowRows(c))
        P == ConsecutivePairs(R)
    IN /\ c \in Ranked <=> Cardinality(R) >= 2
       /\ (c \in Ranked /\ P # {}) =>
            RatEq(ScoreOf(c), <<SumDiffs(P), Cardinality(P)>>)

\* ----------------------------------------------------------------------- C10
\* C10: the regression input is the flat filtered set: every record inside
\* the window whose entity is requested and whose CO2_kt and MeanTemp are
\* both present, whatever max_count and auto_aggregate are.
C10_RegressionInput ==
  reg_df = { r \in final_df :
               /\ r.Year >= year_min /\ r.Year <= year_max
               /\ r.Country \in selected_countries
               /\ notna(r.CO2_kt) /\ notna(r.MeanTemp) }

\* Per-entity mode in which the regression input holds a record of a
\* requested entity that is not in the plotted selection.
C10_Witness ==
  /\ ~use_income_lines /\ ~auto_aggregate
  /\ Cardinality(selected_countries) > max_countries
  /\ \E r \in reg_df : r.Country \notin Elems(topN)

====
